---- MODULE Spec2Model ----
(***************************************************************************)
(* The API gateway (src/src/api_gateway/gateway.py) bound to the in-memory *)
(* transport and process manager (mcp-local-setup/contracts/*_stub.py).    *)
(* Every gateway method is one atomic action.  The transport and process   *)
(* manager are contracts whose calls may raise; a raising call is an input *)
(* of the action (fault), drawn per call.  So is a stop_process that       *)
(* reports false: the process did not stop.                                *)
(***************************************************************************)
EXTENDS Integers, FiniteSets, Sequences, TLC

VARIABLES servers, connections, metrics, tconns, message_count,
          processes, next_pid, last, closed, preStart,
          threads,   \* the calls in progress when several threads use the gateway
          dt,        \* a server descriptor and what _detect_transport made of it
          impl,      \* what a ProcessManagerImpl instance has been asked to spawn
          adapter,   \* a TransportAdapter, its runner process and the pipe between them
          auto_restart  \* ids whose stored config has autoRestart set

gvars == <<servers, connections, metrics, tconns, message_count,
           processes, next_pid, last, closed, preStart>>
aux == <<threads, dt, impl, adapter, auto_restart>>
vars == <<gvars, aux>>

(* ---- bounds ---- *)
MaxConns == 2
MaxRequests == 1

(* ---- program constants ---- *)
NullConn == 0
FirstPid == 1000
SERVER_NOT_FOUND == -32001
SERVER_NOT_RUNNING == -32002
INTERNAL_ERROR == -32603
DefaultRequestId == 1

NullProc == "None"
Kinds == {"stdio", "http", "websocket", "sse"}
ServerIds == {"filesystem", "snap-happy", "websocket-test", "sse-stream"}
CallIds == ServerIds \cup {"non-existent"}
NoId == 0
RequestIds == {NoId, 2}
StartFaults == {"none", "create_connection", "spawn_process"}
StopFaults == {"none", "close_connection", "stop_process", "stop_process_false"}
SendFaults == {"none", "send_message"}

(* ---- registry ---- *)
DefaultTransport(s) ==
    CASE s = "filesystem" -> "http"
      [] s = "snap-happy" -> "stdio"
      [] s = "websocket-test" -> "websocket"
      [] s = "sse-stream" -> "sse"

add_default_servers ==
    [s \in ServerIds |->
        [status |-> "stopped", transport |-> DefaultTransport(s),
         connectionId |-> NullConn, processId |-> NullProc]]

(* ---- the state the handlers thread through their steps ---- *)
Cur ==
    [servers |-> servers, connections |-> connections, metrics |-> metrics,
     tconns |-> tconns, message_count |-> message_count,
     processes |-> processes, next_pid |-> next_pid, closed |-> closed]

Remove(f, k) == [x \in DOMAIN f \ {k} |-> f[x]]

(* what a call returned: one shape for all handlers *)
(* (message is the fixed part of the text, cause the str(e) the text ends with;  *)
(* raised tells that the call ended with an exception instead of a value)       *)
Ret(op, id, success, cid, transport, message, cause, code, value) ==
    [op |-> op, id |-> id, success |-> success, connectionId |-> cid,
     transport |-> transport, message |-> message, cause |-> cause,
     code |-> code, raised |-> FALSE, value |-> value]

(* ---- TransportStub ---- *)
(* create_connection numbering by the connections still open *)
create_connection_CountsOpen(tc, serverId) ==
    LET connection_id ==
            Cardinality({c \in DOMAIN tc : tc[c].status = "connected"}) + 1
    IN  [id |-> connection_id,
         tc |-> (connection_id :> [config |-> serverId, status |-> "connected",
                                   messages_sent |-> 0]) @@ tc]

create_connection(tc, serverId) ==
    LET connection_id == Cardinality(DOMAIN tc) + 1
    IN  [id |-> connection_id,
         tc |-> (connection_id :> [config |-> serverId, status |-> "connected",
                                   messages_sent |-> 0]) @@ tc]

(* close_connection keeping a record of an id it does not know *)
close_connection_RecordsUnknown(tc, connection_id) ==
    IF connection_id \in DOMAIN tc
    THEN [tc EXCEPT ![connection_id].status = "disconnected"]
    ELSE (connection_id :> [config |-> "", status |-> "disconnected",
                            messages_sent |-> 0]) @@ tc

close_connection(tc, connection_id) ==
    IF connection_id \in DOMAIN tc
    THEN [tc EXCEPT ![connection_id].status = "disconnected"]
    ELSE tc

get_status(tc, connection_id) ==
    IF connection_id \notin DOMAIN tc
    THEN [status |-> "unknown", uptime |-> 0, messages_sent |-> 0]
    ELSE [status |-> tc[connection_id].status, uptime |-> 300,
          messages_sent |-> tc[connection_id].messages_sent]

send_message(st, connection_id, request_id) ==
    LET known == connection_id \in DOMAIN st.tconns
    IN  [st |-> [st EXCEPT
                   !.tconns = IF known
                              THEN [@ EXCEPT ![connection_id].messages_sent = @ + 1]
                              ELSE @,
                   !.message_count = IF known THEN @ + 1 ELSE @],
         response |-> [id |-> IF request_id = NoId THEN DefaultRequestId
                              ELSE request_id,
                       status |-> "ok", connection |-> connection_id]]

(* ---- ProcessManagerStub ---- *)
(* a config field that is not given *)
Absent == ""
StubStdout == <<"Process started", "Listening on port 3000">>
StubStderr == << >>

(* f"proc_{n}" *)
GeneratedId(n) ==
    CASE n = 1 -> "proc_1" [] n = 2 -> "proc_2" [] n = 3 -> "proc_3"
      [] n = 4 -> "proc_4" [] OTHER -> "proc_5"

spawn_process(st, config) ==
    LET process_id == IF config.id = Absent
                      THEN GeneratedId(Cardinality(DOMAIN st.processes) + 1)
                      ELSE config.id
    IN  [id |-> process_id,
         st |-> [st EXCEPT
                   !.processes = (process_id :> [pid |-> st.next_pid,
                                                 status |-> "running",
                                                 restarts |-> 0,
                                                 command |-> config.command]) @@ @,
                   !.next_pid = @ + 1]]

(* stop_process counting the stop as a restart *)
stop_process_CountsRestart(procs, process_id) ==
    IF process_id \in DOMAIN procs
    THEN [ok |-> TRUE, procs |-> [procs EXCEPT ![process_id].status = "stopped",
                                               ![process_id].restarts = @ + 1]]
    ELSE [ok |-> FALSE, procs |-> procs]

stop_process(procs, process_id) ==
    IF process_id \in DOMAIN procs
    THEN [ok |-> TRUE, procs |-> [procs EXCEPT ![process_id].status = "stopped"]]
    ELSE [ok |-> FALSE, procs |-> procs]

(* get_process_status reporting the next pid for an id it does not know *)
get_process_status_GuessesPid(procs, process_id) ==
    IF process_id \notin DOMAIN procs
    THEN [pid |-> FirstPid + Cardinality(DOMAIN procs), status |-> "unknown",
          uptime |-> 0, cpu |-> 0, memory |-> 0, restarts |-> 0]
    ELSE [pid |-> procs[process_id].pid, status |-> procs[process_id].status,
          uptime |-> 300, cpu |-> 52, memory |-> 1285,
          restarts |-> procs[process_id].restarts]

(* cpu and memory in tenths: 5.2 and 128.5 *)
get_process_status(procs, process_id) ==
    IF process_id \notin DOMAIN procs
    THEN [pid |-> 0, status |-> "unknown", uptime |-> 0, cpu |-> 0, memory |-> 0,
          restarts |-> 0]
    ELSE [pid |-> procs[process_id].pid, status |-> procs[process_id].status,
          uptime |-> 300, cpu |-> 52, memory |-> 1285,
          restarts |-> procs[process_id].restarts]

(* list[start:] *)
SliceFrom(list, start) ==
    LET n == Len(list)
        k == IF start < 0
             THEN (IF n + start < 0 THEN 0 ELSE n + start)
             ELSE (IF start > n THEN n ELSE start)
    IN  SubSeq(list, k + 1, n)

get_process_logs(procs, process_id, lines) ==
    IF process_id \notin DOMAIN procs
    THEN [stdout |-> << >>, stderr |-> << >>]
    ELSE [stdout |-> SliceFrom(StubStdout, 0 - lines),
          stderr |-> SliceFrom(StubStderr, 0 - lines)]

(* the entries of the list, which has one per key of self.processes *)
list_processes(procs) ==
    {[id |-> p, pid |-> procs[p].pid, status |-> procs[p].status,
      command |-> IF procs[p].command = Absent THEN "unknown" ELSE procs[p].command]
     : p \in DOMAIN procs}

(* ---- ProcessManagerImpl ---- *)
ProcessLimit == 100
DefaultLines == 100

(* _call_node: every call builds a ProcessManagerStub of its own *)
FreshStub == [processes |-> << >>, next_pid |-> FirstPid]

impl_get_process_status(process_id) ==
    get_process_status(FreshStub.processes, process_id)

impl_list_processes == list_processes(FreshStub.processes)

(* spawned tells whether the spawn of line 116 was made, id what it returned *)
impl_spawn_process(config) ==
    IF config.command = Absent
    THEN [raised |-> "Command is required in config", value |-> Absent,
          spawned |-> FALSE, id |-> Absent]
    ELSE IF Cardinality(impl_list_processes) >= ProcessLimit
    THEN [raised |-> "Process limit exceeded", value |-> Absent,
          spawned |-> FALSE, id |-> Absent]
    ELSE LET process_id == spawn_process(FreshStub, config).id
             status == impl_get_process_status(process_id)
         IN  IF status.status # "running"
             THEN [raised |-> "Process failed to start", value |-> Absent,
                   spawned |-> TRUE, id |-> process_id]
             ELSE [raised |-> "none", value |-> process_id,
                   spawned |-> TRUE, id |-> process_id]

impl_stop_process(process_id) ==
    LET status == impl_get_process_status(process_id)
        result == stop_process(FreshStub.processes, process_id)
        final_status == impl_get_process_status(process_id)
    IN  IF status.status = "unknown"
        THEN FALSE
        ELSE final_status.status = "stopped"

impl_get_process_logs(process_id, lines) ==
    LET status == impl_get_process_status(process_id)
    IN  IF status.status = "unknown"
        THEN [stdout |-> << >>, stderr |-> << >>]
        ELSE get_process_logs(FreshStub.processes, process_id, lines)

(* ---- APIGateway._create_process_config ---- *)
create_process_config(s) == [id |-> s, command |-> s]

(* ---- APIGateway.start_server ---- *)
(* start_server's try block spawning a process whatever the transport *)
start_server_try_AlwaysSpawns(st, s, fault) ==
    LET server == st.servers[s]
    IN  IF fault = "create_connection"
        THEN [exc |-> "create_connection", st |-> st, connectionId |-> NullConn]
        ELSE
        LET c == create_connection(st.tconns, s)
            st1 == [st EXCEPT !.tconns = c.tc]
        IN  IF server.transport = "stdio" /\ fault = "spawn_process"
            THEN [exc |-> "spawn_process", st |-> st1, connectionId |-> NullConn]
            ELSE
            LET p == spawn_process(st1, create_process_config(s))
                st2 == [p.st EXCEPT !.servers[s].processId = p.id]
                st3 == [st2 EXCEPT !.servers[s].status = "running",
                                   !.servers[s].connectionId = c.id,
                                   !.connections = (c.id :> s) @@ @]
            IN  [exc |-> "none", st |-> st3, connectionId |-> c.id]

(* the try block: exc names the call that raised ("none" when none did); st is *)
(* the state reached by then                                                   *)
start_server_try(st, s, fault) ==
    LET server == st.servers[s]
    IN  IF fault = "create_connection"
        THEN [exc |-> "create_connection", st |-> st, connectionId |-> NullConn]
        ELSE
        LET c == create_connection(st.tconns, s)
            st1 == [st EXCEPT !.tconns = c.tc]
        IN  IF server.transport = "stdio" /\ fault = "spawn_process"
            THEN [exc |-> "spawn_process", st |-> st1, connectionId |-> NullConn]
            ELSE
            LET p == spawn_process(st1, create_process_config(s))
                st2 == IF server.transport = "stdio"
                       THEN [p.st EXCEPT !.servers[s].processId = p.id]
                       ELSE st1
                st3 == [st2 EXCEPT !.servers[s].status = "running",
                                   !.servers[s].connectionId = c.id,
                                   !.connections = (c.id :> s) @@ @]
            IN  [exc |-> "none", st |-> st3, connectionId |-> c.id]

(* start_server without the 'already running' early return *)
start_server_NoRunningCheck(st, s, fault) ==
    IF s \notin DOMAIN st.servers
    THEN [st |-> st,
          ret |-> Ret("start_server", s, FALSE, NullConn, "unknown", "not found", "none", 0, 0)]
    ELSE LET t == start_server_try(st, s, fault)
         IN  IF t.exc # "none"
             THEN [st |-> t.st,
                   ret |-> Ret("start_server", s, FALSE, NullConn,
                               st.servers[s].transport, "Failed to start", t.exc, 0, 0)]
             ELSE [st |-> t.st,
                   ret |-> Ret("start_server", s, TRUE, t.connectionId,
                               st.servers[s].transport, "started successfully", "none", 0, 0)]

start_server(st, s, fault) ==
    IF s \notin DOMAIN st.servers
    THEN [st |-> st,
          ret |-> Ret("start_server", s, FALSE, NullConn, "unknown", "not found", "none", 0, 0)]
    ELSE IF st.servers[s].status = "running"
    THEN [st |-> st,
          ret |-> Ret("start_server", s, FALSE, st.servers[s].connectionId,
                      st.servers[s].transport, "already running", "none", 0, 0)]
    ELSE LET t == start_server_try(st, s, fault)
         IN  IF t.exc # "none"
             THEN [st |-> t.st,
                   ret |-> Ret("start_server", s, FALSE, NullConn,
                               st.servers[s].transport, "Failed to start", t.exc, 0, 0)]
             ELSE [st |-> t.st,
                   ret |-> Ret("start_server", s, TRUE, t.connectionId,
                               st.servers[s].transport, "started successfully", "none", 0, 0)]

(* ---- APIGateway.stop_server ---- *)
(* stop_server's try block with the record update moved before stop_process *)
stop_server_try_UpdateFirst(st, s, fault) ==
    LET server == st.servers[s]
        cid == server.connectionId
    IN  IF cid # NullConn /\ fault = "close_connection"
        THEN [exc |-> "close_connection", st |-> st, stop_ok |-> TRUE]
        ELSE
        LET st1 == IF cid # NullConn
                   THEN [st EXCEPT !.tconns = close_connection(@, cid),
                                   !.closed = @ \cup {cid}]
                   ELSE st
        IN  IF cid # NullConn /\ cid \notin DOMAIN st1.connections
            THEN [exc |-> "KeyError", st |-> st1, stop_ok |-> TRUE]
            ELSE
            LET st2 == IF cid # NullConn
                       THEN [st1 EXCEPT !.connections = Remove(@, cid)]
                       ELSE st1
                st3 == [st2 EXCEPT !.servers[s].status = "stopped",
                                   !.servers[s].connectionId = NullConn,
                                   !.servers[s].processId = NullProc]
                stops == server.transport = "stdio" /\ server.processId # NullProc
            IN  IF stops /\ fault = "stop_process"
                THEN [exc |-> "stop_process", st |-> st3, stop_ok |-> TRUE]
                ELSE
                LET stopped == IF fault = "stop_process_false"
                               THEN [ok |-> FALSE, procs |-> st3.processes]
                               ELSE stop_process(st3.processes, server.processId)
                IN  [exc |-> "none", stop_ok |-> ~stops \/ stopped.ok,
                     st |-> IF stops
                            THEN [st3 EXCEPT !.processes = stopped.procs]
                            ELSE st3]

(* stop_server's try block without the line that clears processId *)
stop_server_try_KeepsProcessId(st, s, fault) ==
    LET server == st.servers[s]
        cid == server.connectionId
    IN  IF cid # NullConn /\ fault = "close_connection"
        THEN [exc |-> "close_connection", st |-> st, stop_ok |-> TRUE]
        ELSE
        LET st1 == IF cid # NullConn
                   THEN [st EXCEPT !.tconns = close_connection(@, cid),
                                   !.closed = @ \cup {cid}]
                   ELSE st
        IN  IF cid # NullConn /\ cid \notin DOMAIN st1.connections
            THEN [exc |-> "KeyError", st |-> st1, stop_ok |-> TRUE]
            ELSE
            LET st2 == IF cid # NullConn
                       THEN [st1 EXCEPT !.connections = Remove(@, cid)]
                       ELSE st1
                stops == server.transport = "stdio" /\ server.processId # NullProc
            IN  IF stops /\ fault = "stop_process"
                THEN [exc |-> "stop_process", st |-> st2, stop_ok |-> TRUE]
                ELSE
                LET stopped == IF fault = "stop_process_false"
                               THEN [ok |-> FALSE, procs |-> st2.processes]
                               ELSE stop_process(st2.processes, server.processId)
                    st3 == IF stops
                           THEN [st2 EXCEPT !.processes = stopped.procs]
                           ELSE st2
                IN  [exc |-> "none", stop_ok |-> ~stops \/ stopped.ok,
                     st |-> [st3 EXCEPT !.servers[s].status = "stopped",
                                        !.servers[s].connectionId = NullConn]]

stop_server_try(st, s, fault) ==
    LET server == st.servers[s]
        cid == server.connectionId
    IN  IF cid # NullConn /\ fault = "close_connection"
        THEN [exc |-> "close_connection", st |-> st, stop_ok |-> TRUE]
        ELSE
        LET st1 == IF cid # NullConn
                   THEN [st EXCEPT !.tconns = close_connection(@, cid),
                                   !.closed = @ \cup {cid}]
                   ELSE st
        IN  IF cid # NullConn /\ cid \notin DOMAIN st1.connections
            THEN [exc |-> "KeyError", st |-> st1, stop_ok |-> TRUE]  \* del self.connections[...]
            ELSE
            LET st2 == IF cid # NullConn
                       THEN [st1 EXCEPT !.connections = Remove(@, cid)]
                       ELSE st1
                stops == server.transport = "stdio" /\ server.processId # NullProc
            IN  IF stops /\ fault = "stop_process"
                THEN [exc |-> "stop_process", st |-> st2, stop_ok |-> TRUE]
                ELSE
                LET stopped == IF fault = "stop_process_false"
                               THEN [ok |-> FALSE, procs |-> st2.processes]
                               ELSE stop_process(st2.processes, server.processId)
                    st3 == IF stops
                           THEN [st2 EXCEPT !.processes = stopped.procs]
                           ELSE st2
                IN  [exc |-> "none", stop_ok |-> ~stops \/ stopped.ok,
                     st |-> [st3 EXCEPT !.servers[s].status = "stopped",
                                        !.servers[s].connectionId = NullConn,
                                        !.servers[s].processId = NullProc]]

(* stop_server without the 'not running' early return *)
stop_server_NoRunningCheck(st, s, fault) ==
    IF s \notin DOMAIN st.servers
    THEN [st |-> st, stop_ok |-> TRUE,
          ret |-> Ret("stop_server", s, FALSE, NullConn, "unknown", "not found", "none", 0, 0)]
    ELSE LET t == stop_server_try(st, s, fault)
         IN  [st |-> t.st, stop_ok |-> t.stop_ok,
              ret |-> IF t.exc # "none"
                      THEN Ret("stop_server", s, FALSE, NullConn, "unknown",
                               "Failed to stop", t.exc, 0, 0)
                      ELSE Ret("stop_server", s, TRUE, NullConn, "unknown",
                               "stopped", "none", 0, 0)]

(* stop_server reading the record with a default instead of the registry check *)
stop_server_NoRegistryCheck(st, s, fault) ==
    IF s \notin DOMAIN st.servers \/ st.servers[s].status # "running"
    THEN [st |-> st, stop_ok |-> TRUE,
          ret |-> Ret("stop_server", s, FALSE, NullConn, "unknown", "not running", "none", 0, 0)]
    ELSE LET t == stop_server_try(st, s, fault)
         IN  [st |-> t.st, stop_ok |-> t.stop_ok,
              ret |-> IF t.exc # "none"
                      THEN Ret("stop_server", s, FALSE, NullConn, "unknown",
                               "Failed to stop", t.exc, 0, 0)
                      ELSE Ret("stop_server", s, TRUE, NullConn, "unknown",
                               "stopped", "none", 0, 0)]

stop_server(st, s, fault) ==
    IF s \notin DOMAIN st.servers
    THEN [st |-> st, stop_ok |-> TRUE,
          ret |-> Ret("stop_server", s, FALSE, NullConn, "unknown", "not found", "none", 0, 0)]
    ELSE IF st.servers[s].status # "running"
    THEN [st |-> st, stop_ok |-> TRUE,
          ret |-> Ret("stop_server", s, FALSE, NullConn, "unknown", "not running", "none", 0, 0)]
    ELSE LET t == stop_server_try(st, s, fault)
         IN  [st |-> t.st, stop_ok |-> t.stop_ok,
              ret |-> IF t.exc # "none"
                      THEN Ret("stop_server", s, FALSE, NullConn, "unknown",
                               "Failed to stop", t.exc, 0, 0)
                      ELSE Ret("stop_server", s, TRUE, NullConn, "unknown",
                               "stopped", "none", 0, 0)]

(* ---- APIGateway.send_request ---- *)
ErrorObject(s, request_id, code, message, cause) ==
    Ret("send_request", s, FALSE, NullConn, "unknown", message, cause, code,
        [id |-> IF request_id = NoId THEN DefaultRequestId ELSE request_id])

(* send_request's try block with the per-transport counter bumped after the send *)
send_request_try_CountAfter(st, s, request_id, fault) ==
    LET server == st.servers[s]
        st1 == [st EXCEPT !.metrics.requests_total = @ + 1]
    IN  IF fault = "send_message"
        THEN [exc |-> "send_message", st |-> st1, response |-> 0]
        ELSE LET m == send_message(st1, server.connectionId, request_id)
             IN  [exc |-> "none",
                  st |-> [m.st EXCEPT
                            !.metrics.requests_per_transport[server.transport] = @ + 1],
                  response |-> m.response]

(* send_request's try block sending on the transport's first connection *)
send_request_try_FirstConnection(st, s, request_id, fault) ==
    LET server == st.servers[s]
        st1 == [st EXCEPT !.metrics.requests_total = @ + 1]
        st2 == [st1 EXCEPT
                  !.metrics.requests_per_transport[server.transport] = @ + 1]
        first == CHOOSE c \in DOMAIN st.tconns :
                     \A d \in DOMAIN st.tconns : c <= d
    IN  IF fault = "send_message"
        THEN [exc |-> "send_message", st |-> st2, response |-> 0]
        ELSE LET m == send_message(st2, first, request_id)
             IN  [exc |-> "none", st |-> m.st, response |-> m.response]

send_request_try(st, s, request_id, fault) ==
    LET server == st.servers[s]
        st1 == [st EXCEPT !.metrics.requests_total = @ + 1]
    IN  IF server.transport \notin DOMAIN st.metrics.requests_per_transport
        THEN [exc |-> "KeyError", st |-> st1, response |-> 0]
        ELSE
        LET st2 == [st1 EXCEPT
                      !.metrics.requests_per_transport[server.transport] = @ + 1]
        IN  IF fault = "send_message"
            THEN [exc |-> "send_message", st |-> st2, response |-> 0]
            ELSE LET m == send_message(st2, server.connectionId, request_id)
                 IN  [exc |-> "none", st |-> m.st, response |-> m.response]

(* send_request without the except clause: the exception leaves the method *)
send_request_NoExcept(st, s, request_id, fault) ==
    IF s \notin DOMAIN st.servers
    THEN [st |-> st, ret |-> ErrorObject(s, request_id, SERVER_NOT_FOUND, "not found", "none")]
    ELSE IF st.servers[s].status # "running"
    THEN [st |-> st, ret |-> ErrorObject(s, request_id, SERVER_NOT_RUNNING, "not running", "none")]
    ELSE LET t == send_request_try(st, s, request_id, fault)
         IN  [st |-> t.st,
              ret |-> IF t.exc # "none"
                      THEN [ErrorObject(s, request_id, 0, "", t.exc) EXCEPT !.raised = TRUE]
                      ELSE Ret("send_request", s, TRUE, NullConn, "unknown",
                               "response", "none", 0, t.response)]

send_request(st, s, request_id, fault) ==
    IF s \notin DOMAIN st.servers
    THEN [st |-> st, ret |-> ErrorObject(s, request_id, SERVER_NOT_FOUND, "not found", "none")]
    ELSE IF st.servers[s].status # "running"
    THEN [st |-> st, ret |-> ErrorObject(s, request_id, SERVER_NOT_RUNNING, "not running", "none")]
    ELSE LET t == send_request_try(st, s, request_id, fault)
         IN  [st |-> t.st,
              ret |-> IF t.exc # "none"
                      THEN ErrorObject(s, request_id, INTERNAL_ERROR, "Internal error", t.exc)
                      ELSE Ret("send_request", s, TRUE, NullConn, "unknown",
                               "response", "none", 0, t.response)]

(* ---- reads ---- *)
get_server_info(st, s) ==
    IF s \notin DOMAIN st.servers
    THEN [id |-> s, transport |-> "unknown", status |-> "not_found",
          connectionId |-> NullConn, uptime |-> 0]
    ELSE LET server == st.servers[s]
         IN  [id |-> s, transport |-> server.transport, status |-> server.status,
              connectionId |-> server.connectionId,
              uptime |-> IF server.status = "running" /\ server.connectionId # NullConn
                         THEN get_status(st.tconns, server.connectionId).uptime
                         ELSE 0]

(* list_servers testing `if filter_running` first: None falls into the stopped branch *)
list_servers_NoneAsFalse(st, filter_running) ==
    {[id |-> s, transport |-> st.servers[s].transport, status |-> st.servers[s].status] :
        s \in {x \in DOMAIN st.servers :
                  \/ filter_running = "True" /\ st.servers[x].status = "running"
                  \/ filter_running # "True" /\ st.servers[x].status = "stopped"}}

list_servers(st, filter_running) ==
    {[id |-> s, transport |-> st.servers[s].transport, status |-> st.servers[s].status] :
        s \in {x \in DOMAIN st.servers :
                  \/ filter_running = "None"
                  \/ filter_running = "True" /\ st.servers[x].status = "running"
                  \/ filter_running = "False" /\ st.servers[x].status = "stopped"}}

(* get_metrics counting the gateway's connection map instead of the running servers *)
get_metrics_CountsConnections(st) ==
    [requests_total |-> st.metrics.requests_total,
     requests_per_transport |-> st.metrics.requests_per_transport,
     active_connections |-> Cardinality(DOMAIN st.connections)]

get_metrics(st) ==
    [requests_total |-> st.metrics.requests_total,
     requests_per_transport |-> st.metrics.requests_per_transport,
     active_connections |->
         Cardinality({s \in DOMAIN st.servers : st.servers[s].status = "running"})]

(* ---- APIGateway._detect_transport ---- *)
(* text is a sequence of characters, so that `in` and lower() are computed *)
W_http == <<"h", "t", "t", "p">>
W_websocket == <<"w", "e", "b", "s", "o", "c", "k", "e", "t">>
W_sse == <<"s", "s", "e">>
W_stdio == <<"s", "t", "d", "i", "o">>
W_snap == <<"s", "n", "a", "p">>
W_ws == <<"w", "s">>
W_stream == <<"s", "t", "r", "e", "a", "m">>

LowerChar(c) ==
    CASE c = "H" -> "h" [] c = "T" -> "t" [] c = "P" -> "p" [] c = "S" -> "s"
      [] c = "E" -> "e" [] c = "W" -> "w" [] c = "N" -> "n" [] c = "A" -> "a"
      [] OTHER -> c

lower(text) == [i \in DOMAIN text |-> LowerChar(text[i])]

(* sub in text *)
Contains(sub, text) ==
    \E i \in 1..(Len(text) - Len(sub) + 1) : SubSeq(text, i, i + Len(sub) - 1) = sub

KindOf(word) ==
    CASE word = W_http -> "http"
      [] word = W_websocket -> "websocket"
      [] word = W_sse -> "sse"

(* a descriptor: MCP_MODE and package are "" (<< >>) when absent, as get() reads them *)
detect_transport_IdFirst(cfg) ==
    LET server_id == lower(cfg.id)
    IN  IF Contains(W_stdio, server_id) \/ Contains(W_snap, server_id)
        THEN "stdio"
        ELSE IF Contains(W_websocket, server_id) \/ Contains(W_ws, server_id)
        THEN "websocket"
        ELSE IF Contains(W_sse, server_id) \/ Contains(W_stream, server_id)
        THEN "sse"
        ELSE
        LET mcp_mode == lower(cfg.mode)
        IN  IF mcp_mode \in {W_http, W_websocket, W_sse}
            THEN KindOf(mcp_mode)
            ELSE IF cfg.source_type = "npm"
                    /\ (Contains(W_stdio, cfg.package) \/ Contains(W_snap, cfg.package))
            THEN "stdio"
            ELSE "http"

detect_transport(cfg) ==
    LET mcp_mode == lower(cfg.mode)
        server_id == lower(cfg.id)
    IN  IF mcp_mode \in {W_http, W_websocket, W_sse}
        THEN KindOf(mcp_mode)
        ELSE IF cfg.source_type = "npm"
                /\ (Contains(W_stdio, cfg.package) \/ Contains(W_snap, cfg.package))
        THEN "stdio"
        ELSE IF Contains(W_stdio, server_id) \/ Contains(W_snap, server_id)
        THEN "stdio"
        ELSE IF Contains(W_websocket, server_id) \/ Contains(W_ws, server_id)
        THEN "websocket"
        ELSE IF Contains(W_sse, server_id) \/ Contains(W_stream, server_id)
        THEN "sse"
        ELSE "http"

Modes == {<<>>,
          <<"h", "t", "t", "p">>,
          <<"w", "e", "b", "s", "o", "c", "k", "e", "t">>,
          <<"s", "s", "e">>,
          <<"S", "S", "E">>,
          <<"H", "t", "t", "p">>,
          <<"s", "t", "d", "i", "o">>,
          <<"t", "c", "p">>}
Packages == {<<>>,
             <<"s", "n", "a", "p", "-", "h", "a", "p", "p", "y">>,
             <<"x", "-", "s", "t", "d", "i", "o">>,
             <<"S", "n", "a", "p">>,
             <<"f", "s">>}
DescriptorIds == {<<>>,
                  <<"f", "s">>,
                  <<"s", "n", "a", "p">>,
                  <<"m", "y", "-", "s", "t", "d", "i", "o">>,
                  <<"W", "S", "-", "x">>,
                  <<"w", "e", "b", "s", "o", "c", "k", "e", "t">>,
                  <<"s", "s", "e">>,
                  <<"s", "t", "r", "e", "a", "m">>,
                  <<"w", "s", "-", "s", "n", "a", "p">>,
                  <<"s", "s", "e", "-", "w", "s">>,
                  <<"n", "e", "w", "s">>,
                  <<"a", "s", "s", "e", "t">>,
                  <<"S", "t", "r", "e", "a", "m">>}
SourceTypes == {"none", "npm", "pip"}
Descriptors ==
    [mode : Modes, source_type : SourceTypes, package : Packages, id : DescriptorIds]

NoDescriptor ==
    [cfg |-> [mode |-> << >>, source_type |-> "none", package |-> << >>, id |-> << >>],
     done |-> FALSE, result |-> "none"]
NoThreads == << >>
NoImpl == [spawned |-> {}, spawns |-> 0]

(* ---- TransportAdapter ---- *)
(* The adapter talks to a runner process over a pipe.  What the runner      *)
(* writes, and whether it writes, is not the adapter's to decide: a line is *)
(* plain text, text that starts with '{' without being JSON, a JSON object  *)
(* nobody asked for, or the reply to request `for`.                         *)
Methods == {"initialize", "create_connection", "send_message", "close_connection",
            "get_status"}
NoRequest == 0
NoCall == [method |-> "none", req |-> NoRequest, was_initialized |-> FALSE]
NoReturn == [method |-> "none", req |-> NoRequest, was_initialized |-> FALSE,
             raised |-> "none", reply_for |-> NoRequest]

(* __init__ *)
NewAdapter ==
    [node_process |-> "None", initialized |-> FALSE,
     runner |-> "none", spawned |-> 0, inits |-> 0, noise |-> 0,
     requests |-> 0, pending |-> {}, stdout |-> << >>,
     pc |-> "idle", call |-> NoCall, ret |-> NoReturn]

(* _ensure_runner starting a runner on every call *)
ensure_runner_AlwaysSpawns(a) ==
    [a EXCEPT !.node_process = "Popen", !.runner = "alive", !.spawned = @ + 1,
              !.pending = {}, !.stdout = << >>]

ensure_runner(a) ==
    IF a.node_process = "None"
    THEN [a EXCEPT !.node_process = "Popen", !.runner = "alive", !.spawned = @ + 1]
    ELSE a

(* a call ends: with a value (raised = "none") or with an exception *)
adapter_return(a, raised, reply_for) ==
    LET done == a.call.method = "initialize" /\ raised = "none"
    IN  [a EXCEPT !.pc = "idle",
                  !.call = NoCall,
                  !.ret = [method |-> a.call.method, req |-> a.call.req,
                           was_initialized |-> a.call.was_initialized,
                           raised |-> raised, reply_for |-> reply_for],
                  !.initialized = IF done THEN TRUE ELSE @,
                  !.inits = IF done THEN @ + 1 ELSE @]

(* _call_js up to the flush: the request is on the runner's stdin *)
call_js_write(a, method) ==
    LET b == [ensure_runner(a) EXCEPT
                !.call = [method |-> method, req |-> NoRequest,
                          was_initialized |-> a.initialized]]
        n == b.requests + 1
    IN  IF b.runner = "exited"
        THEN adapter_return(b, "BrokenPipeError", NoRequest)
        ELSE [b EXCEPT !.requests = n, !.pending = @ \cup {n}, !.pc = "reading",
                       !.call.req = n]

(* one turn of _call_js's read loop, and what follows the loop *)
call_js_read(a) ==
    IF a.stdout = << >>
    THEN adapter_return(a, "Node.js process terminated unexpectedly", NoRequest)
    ELSE LET line == Head(a.stdout)
             b == [a EXCEPT !.stdout = Tail(@)]
         IN  IF line.kind \in {"text", "bad_json"}
             THEN b
             ELSE IF line.error
             THEN adapter_return(b, "error reply", line.for)
             ELSE adapter_return(b, "none", line.for)

(* the public methods up to their call of _call_js *)
adapter_call(a, method) ==
    IF method = "create_connection" /\ ~a.initialized
    THEN adapter_return([a EXCEPT !.call = [method |-> method, req |-> NoRequest,
                                            was_initialized |-> FALSE]],
                        "Transport not initialized", NoRequest)
    ELSE call_js_write(a, method)

Init ==
    /\ servers = add_default_servers
    /\ connections = << >>
    /\ metrics = [requests_total |-> 0,
                  requests_per_transport |-> [k \in Kinds |-> 0]]
    /\ tconns = << >>
    /\ message_count = 0
    /\ processes = << >>
    /\ next_pid = FirstPid
    /\ last = Ret("init", "", FALSE, NullConn, "unknown", "", "none", 0, 0)
    /\ closed = {}
    /\ preStart = add_default_servers
    /\ threads = NoThreads
    /\ dt = NoDescriptor
    /\ impl = NoImpl
    /\ adapter = NewAdapter
    /\ auto_restart = {}

Apply(out) ==
    /\ servers' = out.st.servers
    /\ connections' = out.st.connections
    /\ metrics' = out.st.metrics
    /\ tconns' = out.st.tconns
    /\ message_count' = out.st.message_count
    /\ processes' = out.st.processes
    /\ next_pid' = out.st.next_pid
    /\ closed' = out.st.closed
    /\ last' = out.ret
    /\ UNCHANGED aux

StartServer ==
    \E s \in CallIds, fault \in StartFaults :
        LET out == start_server(Cur, s, fault)
        IN  /\ fault \in {"none", out.ret.cause}   \* a fault is drawn only where its call is made
            /\ Cardinality(DOMAIN out.st.tconns) <= MaxConns
            /\ Apply(out)
            /\ preStart' = IF out.ret.success
                           THEN [preStart EXCEPT ![s] = servers[s]]
                           ELSE preStart

StopServer ==
    \E s \in CallIds, fault \in StopFaults :
        LET out == stop_server(Cur, s, fault)
        IN  /\ \/ fault \in {"none", out.ret.cause}
               \/ fault = "stop_process_false" /\ ~out.stop_ok
            /\ Apply(out)
            /\ UNCHANGED preStart

SendRequest ==
    \E s \in CallIds, request_id \in RequestIds, fault \in SendFaults :
        LET out == send_request(Cur, s, request_id, fault)
        IN  /\ fault \in {"none", out.ret.cause}
            /\ out.st.metrics.requests_total <= MaxRequests
            /\ Apply(out)
            /\ UNCHANGED preStart

GetServerInfo ==
    \E s \in CallIds :
        /\ last' = Ret("get_server_info", s, TRUE, NullConn, "unknown", "", "none", 0,
                       get_server_info(Cur, s))
        /\ UNCHANGED <<servers, connections, metrics, tconns, message_count,
                       processes, next_pid, closed, preStart, aux>>

ListServers ==
    \E f \in {"None", "True", "False"} :
        /\ last' = Ret("list_servers", f, TRUE, NullConn, "unknown", "", "none", 0,
                       list_servers(Cur, f))
        /\ UNCHANGED <<servers, connections, metrics, tconns, message_count,
                       processes, next_pid, closed, preStart, aux>>

(* get_metrics counting itself as a request *)
GetMetrics_CountsItself ==
    /\ metrics.requests_total < MaxRequests
    /\ metrics' = [metrics EXCEPT !.requests_total = @ + 1]
    /\ last' = Ret("get_metrics", "", TRUE, NullConn, "unknown", "", "none", 0,
                   get_metrics(Cur))
    /\ UNCHANGED <<servers, connections, tconns, message_count,
                   processes, next_pid, closed, preStart, aux>>

GetMetrics ==
    /\ last' = Ret("get_metrics", "", TRUE, NullConn, "unknown", "", "none", 0,
                   get_metrics(Cur))
    /\ UNCHANGED <<servers, connections, metrics, tconns, message_count,
                   processes, next_pid, closed, preStart, aux>>

Next ==
    \/ StartServer
    \/ StopServer
    \/ SendRequest
    \/ GetServerInfo
    \/ ListServers
    \/ GetMetrics

Spec == Init /\ [][Next]_vars

(* ---- _detect_transport applied to one descriptor ---- *)
InitDetect ==
    /\ servers = add_default_servers
    /\ connections = << >>
    /\ metrics = [requests_total |-> 0,
                  requests_per_transport |-> [k \in Kinds |-> 0]]
    /\ tconns = << >>
    /\ message_count = 0
    /\ processes = << >>
    /\ next_pid = FirstPid
    /\ last = Ret("init", "", FALSE, NullConn, "unknown", "", "none", 0, 0)
    /\ closed = {}
    /\ preStart = add_default_servers
    /\ threads = NoThreads
    /\ dt \in [cfg : Descriptors, done : {FALSE}, result : {"none"}]
    /\ impl = NoImpl
    /\ adapter = NewAdapter
    /\ auto_restart = {}

DetectTransport ==
    /\ ~dt.done
    /\ dt' = [dt EXCEPT !.done = TRUE, !.result = detect_transport(dt.cfg)]
    /\ UNCHANGED <<gvars, threads, impl, adapter, auto_restart>>

NextDetect == DetectTransport

SpecDetect == InitDetect /\ [][NextDetect]_vars

(* ---- several threads calling one gateway ---- *)
(* The gateway holds no lock, so a call of one thread advances between the      *)
(* calls it makes on the transport and the process manager, and between the     *)
(* items of the registry it iterates, while other threads run.                  *)
MaxCalls == 2
Writers == {"w1", "w2"}
ConcIds == {"filesystem", "snap-happy"}
ReadOps == {"list_servers", "get_metrics"}
RegistryOrder == <<"filesystem", "snap-happy", "websocket-test", "sse-stream">>

RunningIds(srv) == {s \in DOMAIN srv : srv[s].status = "running"}

IdleWriter ==
    [pc |-> "idle", op |-> "none", id |-> "", connection_id |-> NullConn,
     calls |-> 0, success |-> FALSE]
IdleReader ==
    [pc |-> "idle", op |-> "none", idx |-> 0, seen |-> {}, snapshots |-> {}]

Return(w, success) ==
    [w EXCEPT !.pc = "idle", !.calls = @ + 1, !.success = success,
              !.connection_id = NullConn]

(* the registry contents a call of the reader overlaps with *)
Observe(thr, srv) ==
    IF thr["r"].pc = "iter"
    THEN [thr EXCEPT !["r"].snapshots = @ \cup {RunningIds(srv)}]
    ELSE thr

ConcStep(st, thr) ==
    /\ servers' = st.servers
    /\ connections' = st.connections
    /\ tconns' = st.tconns
    /\ processes' = st.processes
    /\ next_pid' = st.next_pid
    /\ closed' = st.closed
    /\ threads' = Observe(thr, st.servers)
    /\ UNCHANGED <<metrics, message_count, last, preStart, dt, impl, adapter,
                   auto_restart>>

InitConc ==
    /\ servers = add_default_servers
    /\ connections = << >>
    /\ metrics = [requests_total |-> 0,
                  requests_per_transport |-> [k \in Kinds |-> 0]]
    /\ tconns = << >>
    /\ message_count = 0
    /\ processes = << >>
    /\ next_pid = FirstPid
    /\ last = Ret("init", "", FALSE, NullConn, "unknown", "", "none", 0, 0)
    /\ closed = {}
    /\ preStart = add_default_servers
    /\ threads = [t \in Writers \cup {"r"} |->
                    IF t \in Writers THEN IdleWriter ELSE IdleReader]
    /\ dt = NoDescriptor
    /\ impl = NoImpl
    /\ adapter = NewAdapter
    /\ auto_restart = {}

(* start_server up to the try block *)
StartCheck ==
    \E t \in Writers, s \in ConcIds :
        LET w == [threads[t] EXCEPT !.op = "start_server", !.id = s]
        IN  /\ threads[t].pc = "idle"
            /\ threads[t].calls < MaxCalls
            /\ IF s \notin DOMAIN servers \/ servers[s].status = "running"
               THEN ConcStep(Cur, [threads EXCEPT ![t] = Return(w, FALSE)])
               ELSE ConcStep(Cur, [threads EXCEPT ![t] = [w EXCEPT !.pc = "create"]])

StartCreate ==
    \E t \in Writers :
        LET w == threads[t]
            c == create_connection(tconns, w.id)
        IN  /\ w.pc = "create"
            /\ ConcStep([Cur EXCEPT !.tconns = c.tc],
                        [threads EXCEPT ![t] =
                            [w EXCEPT !.connection_id = c.id,
                                      !.pc = IF servers[w.id].transport = "stdio"
                                             THEN "spawn" ELSE "update"]])

StartSpawn ==
    \E t \in Writers :
        LET w == threads[t]
            p == spawn_process(Cur, create_process_config(w.id))
        IN  /\ w.pc = "spawn"
            /\ ConcStep([p.st EXCEPT !.servers[w.id].processId = p.id],
                        [threads EXCEPT ![t] = [w EXCEPT !.pc = "update"]])

StartUpdate ==
    \E t \in Writers :
        LET w == threads[t]
        IN  /\ w.pc = "update"
            /\ ConcStep([Cur EXCEPT
                           !.servers[w.id].status = "running",
                           !.servers[w.id].connectionId = w.connection_id,
                           !.connections = (w.connection_id :> w.id) @@ @],
                        [threads EXCEPT ![t] = Return(w, TRUE)])

(* stop_server up to the try block *)
StopCheck ==
    \E t \in Writers, s \in ConcIds :
        LET w == [threads[t] EXCEPT !.op = "stop_server", !.id = s]
        IN  /\ threads[t].pc = "idle"
            /\ threads[t].calls < MaxCalls
            /\ IF s \notin DOMAIN servers \/ servers[s].status # "running"
               THEN ConcStep(Cur, [threads EXCEPT ![t] = Return(w, FALSE)])
               ELSE ConcStep(Cur, [threads EXCEPT ![t] = [w EXCEPT !.pc = "close"]])

(* close_connection and the del, which raises KeyError for an absent key *)
StopClose ==
    \E t \in Writers :
        LET w == threads[t]
            cid == servers[w.id].connectionId
            st1 == [Cur EXCEPT !.tconns = close_connection(@, cid),
                               !.closed = @ \cup {cid}]
            nxt == IF servers[w.id].transport = "stdio" THEN "stop" ELSE "update_stop"
        IN  /\ w.pc = "close"
            /\ IF cid = NullConn
               THEN ConcStep(Cur, [threads EXCEPT ![t] = [w EXCEPT !.pc = nxt]])
               ELSE IF cid \notin DOMAIN connections
               THEN ConcStep(st1, [threads EXCEPT ![t] = Return(w, FALSE)])
               ELSE ConcStep([st1 EXCEPT !.connections = Remove(@, cid)],
                             [threads EXCEPT ![t] = [w EXCEPT !.pc = nxt]])

StopProcess ==
    \E t \in Writers :
        LET w == threads[t]
            pid == servers[w.id].processId
        IN  /\ w.pc = "stop"
            /\ ConcStep(IF pid # NullProc
                        THEN [Cur EXCEPT !.processes = stop_process(@, pid).procs]
                        ELSE Cur,
                        [threads EXCEPT ![t] = [w EXCEPT !.pc = "update_stop"]])

StopUpdate ==
    \E t \in Writers :
        LET w == threads[t]
        IN  /\ w.pc = "update_stop"
            /\ ConcStep([Cur EXCEPT
                           !.servers[w.id].status = "stopped",
                           !.servers[w.id].connectionId = NullConn,
                           !.servers[w.id].processId = NullProc],
                        [threads EXCEPT ![t] = Return(w, TRUE)])

(* list_servers(filter_running=True) and get_metrics enter their iteration *)
ReadCall ==
    \E op \in ReadOps :
        /\ threads["r"].pc = "idle"
        /\ ConcStep(Cur, [threads EXCEPT !["r"] =
                             [pc |-> "iter", op |-> op, idx |-> 1, seen |-> {},
                              snapshots |-> {}]])

(* one item of self.servers; after the last one the call returns *)
ReadItem ==
    LET r == threads["r"]
        s == RegistryOrder[r.idx]
    IN  /\ r.pc = "iter"
        /\ ConcStep(Cur, [threads EXCEPT !["r"] =
                             [r EXCEPT !.seen = IF servers[s].status = "running"
                                                THEN @ \cup {s} ELSE @,
                                       !.idx = @ + 1,
                                       !.pc = IF r.idx = Len(RegistryOrder)
                                              THEN "done" ELSE "iter"]])

NextConc ==
    \/ StartCheck
    \/ StartCreate
    \/ StartSpawn
    \/ StartUpdate
    \/ StopCheck
    \/ StopClose
    \/ StopProcess
    \/ StopUpdate
    \/ ReadCall
    \/ ReadItem

SpecConc == InitConc /\ [][NextConc]_vars

(* ---- TransportStub called directly ---- *)
ConnIds == 1..(MaxConns + 1)

TransportRet(op, connection_id, value) ==
    Ret(op, "", TRUE, connection_id, "unknown", "", "none", 0, value)

TransportStep(st, ret) ==
    /\ tconns' = st.tconns
    /\ message_count' = st.message_count
    /\ closed' = st.closed
    /\ last' = ret
    /\ UNCHANGED <<servers, connections, metrics, processes, next_pid, preStart, aux>>

CreateConnection ==
    \E s \in ServerIds :
        LET c == create_connection(tconns, s)
        IN  /\ Cardinality(DOMAIN tconns) < MaxConns
            /\ TransportStep([Cur EXCEPT !.tconns = c.tc],
                             TransportRet("create_connection", c.id, c.id))

SendMessage ==
    \E c \in ConnIds, request_id \in RequestIds :
        LET m == send_message(Cur, c, request_id)
        IN  /\ message_count < MaxRequests
            /\ TransportStep(m.st, TransportRet("send_message", c, m.response))

CloseConnection ==
    \E c \in ConnIds :
        TransportStep([Cur EXCEPT !.tconns = close_connection(@, c),
                                  !.closed = @ \cup {c}],
                      TransportRet("close_connection", c, "None"))

GetStatus ==
    \E c \in ConnIds :
        TransportStep(Cur, TransportRet("get_status", c, get_status(tconns, c)))

NextTransport ==
    \/ CreateConnection
    \/ SendMessage
    \/ CloseConnection
    \/ GetStatus

SpecTransport == Init /\ [][NextTransport]_vars

(* ---- the process managers called directly ---- *)
MaxSpawns == 2
MaxLines == 3
ConfigIds == {Absent, "p1", "p2"}
Commands == {Absent, "node"}
ProcessIds == {"p1", "p2", "proc_1", "ghost"}
LineCounts == 0..MaxLines \cup {DefaultLines}

(* id and message hold the id and the command given, code the lines asked for *)
PMRet(op, id, command, lines, raised, value) ==
    [Ret(op, id, raised = "none", NullConn, "unknown", command, raised, lines, value)
        EXCEPT !.raised = (raised # "none")]

PMStep(st, im, ret) ==
    /\ processes' = st.processes
    /\ next_pid' = st.next_pid
    /\ impl' = im
    /\ last' = ret
    /\ UNCHANGED <<servers, connections, metrics, tconns, message_count,
                   closed, preStart, threads, dt, adapter, auto_restart>>

StubSpawn ==
    \E id \in ConfigIds, command \in Commands :
        LET p == spawn_process(Cur, [id |-> id, command |-> command])
        IN  /\ next_pid - FirstPid < MaxSpawns
            /\ PMStep(p.st, impl, PMRet("spawn_process", id, command, 0, "none", p.id))

StubStop ==
    \E process_id \in ProcessIds :
        LET r == stop_process(processes, process_id)
        IN  PMStep([Cur EXCEPT !.processes = r.procs], impl,
                   PMRet("stop_process", process_id, Absent, 0, "none", r.ok))

StubStatus ==
    \E process_id \in ProcessIds :
        PMStep(Cur, impl,
               PMRet("get_process_status", process_id, Absent, 0, "none",
                     get_process_status(processes, process_id)))

StubLogs ==
    \E process_id \in ProcessIds, lines \in LineCounts :
        PMStep(Cur, impl,
               PMRet("get_process_logs", process_id, Absent, lines, "none",
                     get_process_logs(processes, process_id, lines)))

StubList ==
    PMStep(Cur, impl,
           PMRet("list_processes", Absent, Absent, 0, "none", list_processes(processes)))

ImplSpawn ==
    \E id \in ConfigIds, command \in Commands :
        LET r == impl_spawn_process([id |-> id, command |-> command])
        IN  /\ impl.spawns < MaxSpawns
            /\ PMStep(Cur,
                      IF r.spawned
                      THEN [spawned |-> impl.spawned \cup {r.id},
                            spawns |-> impl.spawns + 1]
                      ELSE impl,
                      PMRet("impl_spawn_process", id, command, 0, r.raised, r.value))

ImplStop ==
    \E process_id \in ProcessIds :
        PMStep(Cur, impl,
               PMRet("impl_stop_process", process_id, Absent, 0, "none",
                     impl_stop_process(process_id)))

ImplStatus ==
    \E process_id \in ProcessIds :
        PMStep(Cur, impl,
               PMRet("impl_get_process_status", process_id, Absent, 0, "none",
                     impl_get_process_status(process_id)))

ImplLogs ==
    \E process_id \in ProcessIds, lines \in LineCounts :
        PMStep(Cur, impl,
               PMRet("impl_get_process_logs", process_id, Absent, lines, "none",
                     impl_get_process_logs(process_id, lines)))

ImplList ==
    PMStep(Cur, impl,
           PMRet("impl_list_processes", Absent, Absent, 0, "none", impl_list_processes))

NextPM ==
    \/ StubSpawn
    \/ StubStop
    \/ StubStatus
    \/ StubLogs
    \/ StubList
    \/ ImplSpawn
    \/ ImplStop
    \/ ImplStatus
    \/ ImplLogs
    \/ ImplList

SpecPM == Init /\ [][NextPM]_vars

(* ---- one ProcessManagerImpl asked for more processes than its limit ---- *)
(* f'worker-{i}' *)
WorkerId(i) == "worker-" \o ToString(i)

ImplSpawnWorker ==
    LET id == WorkerId(impl.spawns)
        r == impl_spawn_process([id |-> id, command |-> "node"])
    IN  /\ impl.spawns <= ProcessLimit
        /\ PMStep(Cur,
                  IF r.spawned
                  THEN [spawned |-> impl.spawned \cup {r.id},
                        spawns |-> impl.spawns + 1]
                  ELSE impl,
                  PMRet("impl_spawn_process", id, "node", 0, r.raised, r.value))

NextLimit ==
    \/ ImplSpawnWorker
    \/ ImplList

SpecLimit == Init /\ [][NextLimit]_vars

(* ---- status queries on the transport and on the process managers ---- *)
NextStatus ==
    \/ CreateConnection
    \/ StubSpawn
    \/ GetStatus
    \/ StubStatus
    \/ ImplStatus

SpecStatus == Init /\ [][NextStatus]_vars

(* ---- a ProcessManagerStub given configs with and without autoRestart ---- *)
(* spawn_process reads config.get('id') and stores the config in the       *)
(* record; auto_restart holds the ids whose stored config has autoRestart   *)
(* set, which no method reads.                                              *)
StubSpawnConfig ==
    \E id \in ConfigIds, command \in Commands, autoRestart \in BOOLEAN :
        LET p == spawn_process(Cur, [id |-> id, command |-> command,
                                     autoRestart |-> autoRestart])
        IN  /\ next_pid - FirstPid < MaxSpawns
            /\ processes' = p.st.processes
            /\ next_pid' = p.st.next_pid
            /\ last' = PMRet("spawn_process", id, command, 0, "none", p.id)
            /\ auto_restart' = IF autoRestart THEN auto_restart \cup {p.id}
                               ELSE auto_restart \ {p.id}
            /\ UNCHANGED <<servers, connections, metrics, tconns, message_count,
                           closed, preStart, threads, dt, impl, adapter>>

NextRestart ==
    \/ StubSpawnConfig
    \/ StubStop
    \/ StubStatus
    \/ StubList

SpecRestart == Init /\ [][NextRestart]_vars

(* ---- a TransportAdapter and its runner ---- *)
MaxAdapterCalls == 2
MaxNoise == 1

AdapterStep(a) ==
    /\ adapter' = a
    /\ UNCHANGED <<gvars, threads, dt, impl, auto_restart>>

AdapterCall ==
    \E method \in Methods :
        /\ adapter.pc = "idle"
        /\ adapter.requests < MaxAdapterCalls
        /\ AdapterStep(adapter_call(adapter, method))

(* readline returns when a line is there or the runner has closed its end *)
AdapterRead ==
    /\ adapter.pc = "reading"
    /\ adapter.stdout # << >> \/ adapter.runner = "exited"
    /\ AdapterStep(call_js_read(adapter))

RunnerReply ==
    \E n \in adapter.pending, error \in BOOLEAN :
        /\ adapter.runner = "alive"
        /\ AdapterStep([adapter EXCEPT
                          !.pending = @ \ {n},
                          !.stdout = Append(@, [kind |-> "reply", for |-> n,
                                                error |-> error])])

RunnerNoise ==
    \E kind \in {"text", "bad_json", "json"} :
        /\ adapter.runner = "alive"
        /\ adapter.noise < MaxNoise
        /\ AdapterStep([adapter EXCEPT
                          !.noise = @ + 1,
                          !.stdout = Append(@, [kind |-> kind, for |-> NoRequest,
                                                error |-> FALSE])])

RunnerExit ==
    /\ adapter.runner = "alive"
    /\ AdapterStep([adapter EXCEPT !.runner = "exited"])

NextAdapter ==
    \/ AdapterCall
    \/ AdapterRead
    \/ RunnerReply
    \/ RunnerNoise
    \/ RunnerExit

SpecAdapter == Init /\ [][NextAdapter]_vars

(* the calling thread runs whenever it can; the runner owes nothing *)
SpecAdapterLive == SpecAdapter /\ WF_vars(AdapterRead)

(***************************************************************************)
(* Properties.  last describes the call that made the step: every action   *)
(* leaves its return value there, so in a step last' is the value returned *)
(* and the unprimed variables are the state the call found.                *)
(***************************************************************************)
Running(srv) == {s \in DOMAIN srv : srv[s].status = "running"}

(* C1: after start_server(id) returns success, get_server_info(id) reports   *)
(* 'running' with the connectionId start_server returned; a start_server(id) *)
(* on a running server returns success=false 'already running' with that     *)
(* same connectionId, creates no connection and no process, and leaves the   *)
(* record's connectionId unchanged.                                          *)
C1_StartThenAlreadyRunning ==
    [][\A s \in ServerIds :
         (last'.op = "start_server" /\ last'.id = s) =>
            /\ last'.success =>
                 /\ get_server_info(Cur', s).status = "running"
                 /\ get_server_info(Cur', s).connectionId = last'.connectionId
                 /\ last'.connectionId # NullConn
            /\ servers[s].status = "running" =>
                 /\ ~last'.success
                 /\ last'.message = "already running"
                 /\ last'.connectionId = servers[s].connectionId
                 /\ tconns' = tconns
                 /\ processes' = processes /\ next_pid' = next_pid
                 /\ servers'[s].connectionId = servers[s].connectionId]_vars

C1_Witness ==
    /\ last.op = "start_server"
    /\ last.message = "already running"
    /\ last.connectionId # NullConn
    /\ servers[last.id].connectionId = last.connectionId

(* C2: a server record changes only in a successful start_server for its id *)
(* (stopped -> running) or a successful stop_server for its id (running ->  *)
(* stopped); no other call, and no call on another id, changes its status,  *)
(* connectionId or processId.                                               *)
C2_OnlyStartStopTransitions ==
    [][\A s \in ServerIds :
         servers'[s] # servers[s] =>
            /\ last'.id = s
            /\ last'.success
            /\ \/ /\ last'.op = "start_server"
                  /\ servers[s].status = "stopped"
                  /\ servers'[s].status = "running"
               \/ /\ last'.op = "stop_server"
                  /\ servers[s].status = "running"
                  /\ servers'[s].status = "stopped"]_vars

C2_Witness ==
    /\ last.op = "stop_server"
    /\ last.success
    /\ servers[last.id].status = "stopped"
    /\ \E o \in ServerIds \ {last.id} : servers[o].status = "running"

(* C3: for a stdio server, when spawn_process raises in start_server after  *)
(* create_connection succeeded, the connection opened by the call is closed *)
(* in the transport when the call returns, and the record is still stopped  *)
(* with connectionId and processId null.                                    *)
C3_SpawnFailureRollsBack ==
    [][(last'.op = "start_server" /\ last'.cause = "spawn_process") =>
          /\ \A c \in DOMAIN tconns' \ DOMAIN tconns :
                 tconns'[c].status # "connected"
          /\ servers'[last'.id].status = "stopped"
          /\ servers'[last'.id].connectionId = NullConn
          /\ servers'[last'.id].processId = NullProc]_vars

(* C4: a start_server or stop_server call that returns success=false leaves *)
(* every server record and the gateway's connection map as they were.       *)
C4_FailureLeavesStateUnchanged ==
    [][(last'.op \in {"start_server", "stop_server"} /\ ~last'.success) =>
          /\ servers' = servers
          /\ connections' = connections]_vars

(* C5: a successful stop_server after a successful start_server returns the *)
(* record to stopped with connectionId and processId null (stdio too),      *)
(* removes the connection id from the connection map, and the record equals *)
(* its value before the start.                                              *)
C5_StartStopRoundTrip ==
    [][\A s \in ServerIds :
         (last'.op = "stop_server" /\ last'.id = s /\ last'.success) =>
            /\ servers'[s].status = "stopped"
            /\ servers'[s].connectionId = NullConn
            /\ servers'[s].processId = NullProc
            /\ servers[s].connectionId \notin DOMAIN connections'
            /\ servers'[s] = preStart[s]]_vars

C5_Witness ==
    /\ last.op = "stop_server"
    /\ last.success
    /\ last.id = "snap-happy"
    /\ "snap-happy" \in DOMAIN processes

(* C6: after a stop_server call returns, with success or failure, no server *)
(* record holds the id of a connection the gateway has closed in the        *)
(* transport.                                                               *)
C6_NoClosedConnectionReferenced ==
    last.op = "stop_server" =>
        \A s \in ServerIds :
            servers[s].connectionId # NullConn => servers[s].connectionId \notin closed

(* C7: send_request never raises; it returns -32001 for an unregistered id, *)
(* -32002 for a registered server that is not running, -32603 when the      *)
(* transport's send_message raised for a running server; the registration   *)
(* check comes first.                                                       *)
C7_SendRequestErrorCodes ==
    [][last'.op = "send_request" =>
          /\ ~last'.raised
          /\ last'.id \notin DOMAIN servers => last'.code = SERVER_NOT_FOUND
          /\ (last'.id \in DOMAIN servers /\ servers[last'.id].status # "running")
                => last'.code = SERVER_NOT_RUNNING
          /\ last'.cause = "send_message" =>
                /\ last'.code = INTERNAL_ERROR
                /\ servers[last'.id].status = "running"
          /\ (last'.id \in DOMAIN servers /\ servers[last'.id].status = "running")
                => last'.code \in {0, INTERNAL_ERROR}]_vars

C7_Witness ==
    /\ last.op = "send_request"
    /\ last.cause = "send_message"
    /\ last.code = INTERNAL_ERROR

(* C8: a send_request that returns an error object (-32001, -32002, -32603) *)
(* leaves requests_total and every per-transport counter unchanged; only a  *)
(* dispatch the transport answered increments them, once.                   *)
C8_CountersOnlyOnSuccess ==
    [][last'.op = "send_request" =>
          IF last'.code # 0
          THEN metrics' = metrics
          ELSE /\ metrics'.requests_total = metrics.requests_total + 1
               /\ \A k \in Kinds :
                    metrics'.requests_per_transport[k] =
                       metrics.requests_per_transport[k]
                       + (IF k = servers[last'.id].transport THEN 1 ELSE 0)]_vars

(* C9: the four requests_per_transport counters always add up to            *)
(* requests_total.                                                          *)
C9_CountersSumToTotal ==
    metrics.requests_per_transport["stdio"] + metrics.requests_per_transport["http"]
      + metrics.requests_per_transport["websocket"]
      + metrics.requests_per_transport["sse"] = metrics.requests_total

C9_Witness ==
    /\ last.op = "send_request"
    /\ last.code = INTERNAL_ERROR
    /\ metrics.requests_total > 0

(* C10: the active_connections value get_metrics returns is the number of   *)
(* registered servers whose status is 'running'.                            *)
C10_ActiveConnectionsCountsRunning ==
    last.op = "get_metrics" =>
        last.value.active_connections = Cardinality(Running(servers))

C10_Witness ==
    /\ last.op = "get_metrics"
    /\ last.value.active_connections = 1
    /\ Cardinality(DOMAIN connections) = 0

(* C11: for an id that was never registered, start_server and stop_server   *)
(* return success=false 'not found', get_server_info returns status         *)
(* 'not_found' with transport 'unknown' and connectionId null, send_request *)
(* returns the -32001 error object; none raises, none adds the id to the    *)
(* registry.                                                                *)
C11_UnregisteredIdIsNotFound ==
    /\ DOMAIN servers = ServerIds
    /\ (last.op \in {"start_server", "stop_server", "send_request", "get_server_info"}
          /\ last.id \notin ServerIds) =>
          /\ ~last.raised
          /\ last.op \in {"start_server", "stop_server"} =>
                ~last.success /\ last.message = "not found"
          /\ last.op = "start_server" =>
                last.connectionId = NullConn /\ last.transport = "unknown"
          /\ last.op = "send_request" => last.code = SERVER_NOT_FOUND
          /\ last.op = "get_server_info" =>
                /\ last.value.status = "not_found"
                /\ last.value.transport = "unknown"
                /\ last.value.connectionId = NullConn

C11_Witness ==
    /\ last.op = "stop_server"
    /\ last.id \notin ServerIds
    /\ Running(servers) # {}

(* C12: for a running server, send_request sends on exactly the             *)
(* connectionId recorded for that server, a connection opened for that      *)
(* server and no other, and returns what the transport's send_message       *)
(* returned, unmodified.                                                    *)
C12_RequestRoutedToOwnConnection ==
    (last.op = "send_request" /\ last.code = 0) =>
        LET cid == servers[last.id].connectionId
        IN  /\ last.value.connection = cid
            /\ cid \in DOMAIN tconns /\ tconns[cid].config = last.id
            /\ tconns[cid].messages_sent >= 1
            /\ \E r \in RequestIds :
                   last.value = send_message(Cur, cid, r).response

C12_Witness ==
    /\ last.op = "send_request"
    /\ last.code = 0
    /\ last.value.connection = 2
    /\ Cardinality(Running(servers)) = 2

(* C18: list_servers(True) returns exactly the running servers,             *)
(* list_servers(False) exactly the stopped ones, list_servers() all         *)
(* registered servers; in every state the True and False results are        *)
(* disjoint and together contain every registered server.                   *)
Ids(listing) == {e.id : e \in listing}

C18_ListServersFilters ==
    /\ last.op = "list_servers" =>
          /\ last.id = "True" => Ids(last.value) = Running(servers)
          /\ last.id = "False" =>
                Ids(last.value) = {s \in DOMAIN servers : servers[s].status = "stopped"}
          /\ last.id = "None" => Ids(last.value) = DOMAIN servers
          /\ \A e \in last.value :
                /\ e.status = servers[e.id].status
                /\ e.transport = servers[e.id].transport
    /\ Ids(list_servers(Cur, "True")) \cap Ids(list_servers(Cur, "False")) = {}
    /\ Ids(list_servers(Cur, "True")) \cup Ids(list_servers(Cur, "False"))
          = DOMAIN servers

C18_Witness ==
    /\ last.op = "list_servers"
    /\ last.id = "None"
    /\ Cardinality(Running(servers)) = 1

(* C17: when stop_server returns success for a stdio server, the server's   *)
(* former connection is no longer 'connected' in the transport and its      *)
(* process is not running in the process manager; stop_server does not      *)
(* report success when stop_process reported false.                         *)
C17_StopSuccessMeansProcessStopped ==
    [][(last'.op = "stop_server" /\ last'.success
          /\ servers[last'.id].transport = "stdio") =>
          /\ get_status(tconns', servers[last'.id].connectionId).status # "connected"
          /\ get_process_status(processes', servers[last'.id].processId).status
                # "running"]_vars

C16_ProcessOnlyForStdio ==
    /\ (last.op = "start_server" /\ last.success
          /\ servers[last.id].transport = "stdio") =>
          /\ servers[last.id].processId # NullProc
          /\ get_process_status(processes, servers[last.id].processId).status
                = "running"
    /\ \A s \in ServerIds :
          servers[s].transport # "stdio" =>
              /\ servers[s].processId = NullProc
              /\ s \notin DOMAIN processes

C16_Witness ==
    /\ last.op = "start_server"
    /\ last.success
    /\ last.id = "snap-happy"
    /\ \E s \in ServerIds \ {"snap-happy"} : servers[s].status = "running"

(* C20: every successful create_connection returns an id no earlier         *)
(* create_connection returned, ids of connections closed since included,    *)
(* leaves the earlier connections as they were, and get_status of the new   *)
(* id reports 'connected'.                                                  *)
C20_FreshConnectionIds ==
    [][(last'.op = "start_server"
          /\ (last'.success \/ last'.cause = "spawn_process")) =>
          \E c \in DOMAIN tconns' :
              /\ c \notin DOMAIN tconns
              /\ DOMAIN tconns' = DOMAIN tconns \cup {c}
              /\ \A d \in DOMAIN tconns : tconns'[d] = tconns[d]
              /\ get_status(tconns', c).status = "connected"
              /\ last'.success => last'.connectionId = c]_vars

C20_Witness ==
    /\ last.op = "start_server"
    /\ last.success
    /\ last.connectionId = 2
    /\ tconns[1].status = "disconnected"

(* C19: transport detection always yields one of stdio, http, websocket,    *)
(* sse, by strict precedence: an MCP_MODE hint of http/websocket/sse wins;  *)
(* otherwise an npm source whose package name contains 'stdio' or 'snap'    *)
(* gives stdio; otherwise the lower-cased id is matched stdio/snap ->       *)
(* stdio, then websocket/ws -> websocket, then sse/stream -> sse;           *)
(* otherwise http.                                                          *)
C19_DetectionPrecedence ==
    dt.done =>
        LET c == dt.cfg
            hint == lower(c.mode) \in {W_http, W_websocket, W_sse}
            npmStdio == /\ c.source_type = "npm"
                        /\ (Contains(W_stdio, c.package) \/ Contains(W_snap, c.package))
            idStdio == Contains(W_stdio, lower(c.id)) \/ Contains(W_snap, lower(c.id))
            idWs == Contains(W_websocket, lower(c.id)) \/ Contains(W_ws, lower(c.id))
            idSse == Contains(W_sse, lower(c.id)) \/ Contains(W_stream, lower(c.id))
        IN  /\ dt.result \in Kinds
            /\ hint => dt.result = KindOf(lower(c.mode))
            /\ (~hint /\ npmStdio) => dt.result = "stdio"
            /\ (~hint /\ ~npmStdio /\ idStdio) => dt.result = "stdio"
            /\ (~hint /\ ~npmStdio /\ ~idStdio /\ idWs) => dt.result = "websocket"
            /\ (~hint /\ ~npmStdio /\ ~idStdio /\ ~idWs /\ idSse) => dt.result = "sse"
            /\ (~hint /\ ~npmStdio /\ ~idStdio /\ ~idWs /\ ~idSse) => dt.result = "http"

C19_Witness ==
    /\ dt.done
    /\ dt.cfg.mode = W_sse
    /\ dt.cfg.source_type = "npm"
    /\ Contains(W_snap, dt.cfg.package)
    /\ Contains(W_ws, lower(dt.cfg.id))
    /\ dt.result = "sse"

(* C13: two start_server calls for the same stopped server that run         *)
(* concurrently do not interleave: exactly one returns success, at most one *)
(* transport connection and one process are created for the server, and the *)
(* connection map ends with exactly one entry for it.                       *)
C13_ConcurrentStartsSerialized ==
    \A s \in ConcIds :
        (\A t \in Writers : /\ threads[t].pc = "idle"
                            /\ threads[t].calls = 1
                            /\ threads[t].op = "start_server"
                            /\ threads[t].id = s)
        => /\ Cardinality({t \in Writers : threads[t].success}) = 1
           /\ Cardinality({c \in DOMAIN tconns : tconns[c].config = s}) <= 1
           /\ next_pid - FirstPid <= 1
           /\ Cardinality({c \in DOMAIN connections : connections[c] = s}) = 1

(* C14: a list_servers or get_metrics call running while other threads      *)
(* start and stop servers returns the registry as it was at one instant of  *)
(* the call; in particular the servers it reports running were all running  *)
(* together at one instant of the call.                                     *)
C14_ReadIsSnapshot ==
    threads["r"].pc = "done" =>
        /\ threads["r"].op = "list_servers" =>
               \E snap \in threads["r"].snapshots : threads["r"].seen \subseteq snap
        /\ threads["r"].op = "get_metrics" =>
               \E snap \in threads["r"].snapshots :
                   Cardinality(threads["r"].seen) <= Cardinality(snap)

(* C21: closing a connection is terminal: once close_connection has been    *)
(* called on a connection, get_status of its id reports 'disconnected' or   *)
(* 'unknown' and never 'connected' again, whatever create_connection,       *)
(* send_message and close_connection calls follow.                          *)
C21_CloseIsTerminal ==
    [][\A c \in ConnIds :
          (/\ c \in DOMAIN tconns
           /\ \/ tconns[c].status = "disconnected"
              \/ last'.op = "close_connection" /\ last'.connectionId = c)
          => get_status(tconns', c).status \in {"disconnected", "unknown"}]_vars

C21_Witness ==
    /\ last.op = "get_status"
    /\ last.connectionId \in closed
    /\ last.value.status = "disconnected"
    /\ tconns[last.connectionId].messages_sent > 0
    /\ \E c \in DOMAIN tconns : c > last.connectionId /\ tconns[c].status = "connected"

(* C22: close_connection is idempotent: on an id that is already closed or  *)
(* was never created it raises no error and leaves the transport's state    *)
(* exactly as it was.                                                       *)
C22_CloseIsIdempotent ==
    [][(/\ last'.op = "close_connection"
        /\ \/ last'.connectionId \notin DOMAIN tconns
           \/ tconns[last'.connectionId].status = "disconnected")
       => /\ ~last'.raised
          /\ tconns' = tconns
          /\ message_count' = message_count]_vars

C22_Witness ==
    /\ last.op = "close_connection"
    /\ last.connectionId \notin DOMAIN tconns
    /\ \E c \in DOMAIN tconns : tconns[c].status = "disconnected"
    /\ ~last.raised

(* C23: calling stop_process a second time on the same process id is safe:  *)
(* the second call raises no error, leaves the process table as it is and   *)
(* returns false.                                                           *)
C23_SecondStopReturnsFalse ==
    [][(/\ last'.op = "stop_process"
        /\ last'.id \in DOMAIN processes
        /\ processes[last'.id].status = "stopped")
       => /\ ~last'.raised
          /\ processes' = processes
          /\ last'.value = FALSE]_vars

(* C24: ProcessManagerImpl.stop_process on a process that was spawned and   *)
(* is running returns true and get_process_status then reports 'stopped';   *)
(* it returns true only when the status afterwards is 'stopped'; on an id   *)
(* that was never spawned it returns false, raises nothing and changes      *)
(* nothing.                                                                 *)
C24_StopReturnsTrueIffStopped ==
    [][last'.op = "impl_stop_process" =>
          /\ last'.id \in impl.spawned =>
                 /\ last'.value = TRUE
                 /\ impl_get_process_status(last'.id).status = "stopped"
          /\ last'.value = TRUE =>
                 impl_get_process_status(last'.id).status = "stopped"
          /\ last'.id \notin impl.spawned =>
                 /\ last'.value = FALSE
                 /\ ~last'.raised
                 /\ impl' = impl]_vars

(* C25: ProcessManagerImpl.spawn_process with a config that has a command   *)
(* returns a process id, the config's id when one is given, and             *)
(* get_process_status of that id then reports 'running' with pid > 0.       *)
C25_SpawnReturnsRunningProcess ==
    (last.op = "impl_spawn_process" /\ last.message # Absent) =>
        /\ ~last.raised
        /\ last.id # Absent => last.value = last.id
        /\ impl_get_process_status(last.value).status = "running"
        /\ impl_get_process_status(last.value).pid > 0

(* C26: a spawn_process call made when the processes spawned through the    *)
(* manager already number its ceiling fails with the resource-limit error   *)
(* before anything is spawned.                                              *)
C26_CeilingEnforced ==
    [][(last'.op = "impl_spawn_process" /\ Cardinality(impl.spawned) >= ProcessLimit)
       => /\ last'.cause = "Process limit exceeded"
          /\ impl' = impl]_vars

(* C27: list_processes returns one entry for every process that has been    *)
(* spawned through the same process manager instance.                       *)
C27_ListReturnsSpawned ==
    /\ last.op = "list_processes" => Ids(last.value) = DOMAIN processes
    /\ last.op = "impl_list_processes" => Ids(last.value) = impl.spawned

(* C28: spawn_process with a config that has no command is rejected with an *)
(* error before any side effect: nothing is spawned and the process table   *)
(* is unchanged.                                                            *)
C28_MissingCommandRejected ==
    [][(last'.op \in {"spawn_process", "impl_spawn_process"} /\ last'.message = Absent)
       => /\ last'.raised
          /\ processes' = processes
          /\ next_pid' = next_pid
          /\ impl' = impl]_vars

IsSuffix(part, list) ==
    /\ Len(part) <= Len(list)
    /\ part = SubSeq(list, Len(list) - Len(part) + 1, Len(list))

(* C29: get_process_logs(id, lines) returns for stdout and stderr at most   *)
(* `lines` entries, for every lines >= 0, each list a suffix of the         *)
(* captured log; for an unknown id both lists are empty.                    *)
C29_LogsAreLastLines ==
    /\ last.op = "get_process_logs" =>
           /\ Len(last.value.stdout) <= last.code
           /\ Len(last.value.stderr) <= last.code
           /\ IsSuffix(last.value.stdout, StubStdout)
           /\ IsSuffix(last.value.stderr, StubStderr)
           /\ last.id \notin DOMAIN processes =>
                  last.value = [stdout |-> << >>, stderr |-> << >>]
    /\ last.op = "impl_get_process_logs" =>
           /\ Len(last.value.stdout) <= last.code
           /\ Len(last.value.stderr) <= last.code
           /\ last.id \notin impl.spawned =>
                  last.value = [stdout |-> << >>, stderr |-> << >>]

(* C30: status queries on unknown ids never raise and never change state:   *)
(* get_status of a connection id never created returns status 'unknown'     *)
(* with uptime 0, and get_process_status of an id never spawned returns     *)
(* pid 0, status 'unknown' and zero uptime, cpu, memory and restarts.       *)
C30_UnknownIdStatus ==
    [][/\ (last'.op = "get_status" /\ last'.connectionId \notin DOMAIN tconns)
          => /\ ~last'.raised
             /\ last'.value.status = "unknown"
             /\ last'.value.uptime = 0
             /\ tconns' = tconns
             /\ message_count' = message_count
       /\ (\/ last'.op = "get_process_status" /\ last'.id \notin DOMAIN processes
           \/ last'.op = "impl_get_process_status" /\ last'.id \notin impl.spawned)
          => /\ ~last'.raised
             /\ last'.value = [pid |-> 0, status |-> "unknown", uptime |-> 0,
                               cpu |-> 0, memory |-> 0, restarts |-> 0]
             /\ processes' = processes
             /\ next_pid' = next_pid
             /\ impl' = impl]_vars

C30_Witness ==
    /\ last.op = "get_process_status"
    /\ last.id \notin DOMAIN processes
    /\ last.value.status = "unknown"
    /\ processes # << >>
    /\ \E c \in ConnIds : c \in DOMAIN tconns /\ c + 1 \notin DOMAIN tconns

(* C35: get_server_info, list_servers and get_metrics are pure reads: a     *)
(* call leaves the registry, the connection map, the request counters and   *)
(* the transport's connections unchanged, whatever its argument.            *)
C35_ReadsChangeNothing ==
    [][last'.op \in {"get_server_info", "list_servers", "get_metrics"}
       => /\ servers' = servers
          /\ connections' = connections
          /\ metrics' = metrics
          /\ tconns' = tconns
          /\ message_count' = message_count]_vars

C35_Witness ==
    /\ last.op = "get_server_info"
    /\ last.id \in DOMAIN servers
    /\ servers[last.id].status = "running"
    /\ last.value.status = "running"
    /\ metrics.requests_total > 0

(* C37: for every registered server, status is 'running' iff connectionId   *)
(* is set, iff the connection map holds connectionId -> the server's id;    *)
(* the map has no other entry, so its size is the number of running         *)
(* servers; and a 'stopped' server has no processId.                        *)
C37_RegistryAndMapAgree ==
    /\ \A s \in DOMAIN servers :
          /\ servers[s].status = "running" <=> servers[s].connectionId # NullConn
          /\ servers[s].connectionId # NullConn <=>
                 /\ servers[s].connectionId \in DOMAIN connections
                 /\ connections[servers[s].connectionId] = s
          /\ servers[s].status = "stopped" => servers[s].processId = NullProc
    /\ \A c \in DOMAIN connections :
          /\ connections[c] \in DOMAIN servers
          /\ servers[connections[c]].connectionId = c
    /\ Cardinality(DOMAIN connections) = Cardinality(Running(servers))

(* C38: a running server can always be stopped by retrying: a stop_server   *)
(* call on a running server during which neither close_connection nor       *)
(* stop_process raises, also one that follows a stop the two made fail,     *)
(* returns success and leaves the server 'stopped'.                         *)
C38_StopSucceedsOnRetry ==
    [][(/\ last'.op = "stop_server"
        /\ last'.id \in DOMAIN servers
        /\ servers[last'.id].status = "running"
        /\ last'.cause \notin {"close_connection", "stop_process"})
       => /\ last'.success
          /\ servers'[last'.id].status = "stopped"]_vars

(* C39: whatever calls raised, every process the process manager reports   *)
(* 'running' is the processId of a running server and every connection the  *)
(* transport reports 'connected' is the connectionId of a running server.   *)
C39_NoOrphans ==
    /\ \A p \in DOMAIN processes :
          processes[p].status = "running" =>
              \E s \in DOMAIN servers :
                  servers[s].status = "running" /\ servers[s].processId = p
    /\ \A c \in DOMAIN tconns :
          tconns[c].status = "connected" =>
              \E s \in DOMAIN servers :
                  servers[s].status = "running" /\ servers[s].connectionId = c

(* C33: every send_message call on the transport adapter eventually         *)
(* returns, with a response or a failure, even if the runner never writes   *)
(* a response.                                                              *)
C33_SendMessageReturns ==
    (adapter.pc = "reading" /\ adapter.call.method = "send_message")
        ~> (adapter.pc = "idle")

(* C34: a call made through the transport adapter returns the reply that    *)
(* was produced for its own request, whatever else the runner wrote between *)
(* replies, JSON objects included.                                          *)
C34_ReplyBelongsToRequest ==
    (adapter.ret.method # "none" /\ adapter.ret.raised \in {"none", "error reply"})
        => adapter.ret.reply_for = adapter.ret.req

(* C36: initialize is idempotent: once it has succeeded, a further          *)
(* initialize leaves initialized true and the runner handle as it is, and   *)
(* over any sequence of calls at most one runner process is spawned.        *)
C36_InitializeIdempotent ==
    [][/\ adapter'.spawned <= 1
       /\ adapter.initialized =>
              /\ adapter'.initialized
              /\ adapter'.node_process = adapter.node_process
              /\ adapter'.spawned = adapter.spawned]_vars

C36_Witness ==
    /\ adapter.inits = 2
    /\ adapter.ret.method = "initialize"
    /\ adapter.ret.raised = "none"
    /\ adapter.initialized

(* C40: create_connection, send_message, close_connection and get_status    *)
(* called before initialize has succeeded fail with 'Transport not          *)
(* initialized' and send nothing to the runner.                             *)
C40_CallsNeedInitialize ==
    LET guarded == {"create_connection", "send_message", "close_connection",
                    "get_status"}
    IN  /\ (adapter.pc = "reading" /\ adapter.call.method \in guarded)
               => adapter.call.was_initialized
        /\ (adapter.ret.method \in guarded /\ ~adapter.ret.was_initialized)
               => /\ adapter.ret.raised = "Transport not initialized"
                  /\ adapter.ret.req = NoRequest

(* C31: a process stopped through stop_process is never restarted: until    *)
(* spawn_process is called again for its id, its record stays, its status   *)
(* stays 'stopped' and is reported so, and its restart count and pid do not *)
(* change, also when its config had autoRestart set.                        *)
C31_StoppedStaysStopped ==
    [][\A p \in DOMAIN processes :
          processes[p].status = "stopped" =>
              \/ last'.op = "spawn_process" /\ last'.value = p
              \/ /\ p \in DOMAIN processes'
                 /\ processes'[p].status = "stopped"
                 /\ processes'[p].restarts = processes[p].restarts
                 /\ (last'.op = "get_process_status" /\ last'.id = p) =>
                        /\ last'.value.status = "stopped"
                        /\ last'.value.restarts = processes[p].restarts]_vars

C31_Witness ==
    \E p \in auto_restart :
        /\ p \in DOMAIN processes
        /\ processes[p].status = "stopped"
        /\ last.op = "get_process_status"
        /\ last.id = p
        /\ last.value.status = "stopped"
        /\ last.value.restarts = 0

(* C32: a pid is assigned to a process id once and is never shared: no two  *)
(* tracked ids have the same pid, and the pid of a tracked id does not      *)
(* change while its record is kept, spawn_process with the same id          *)
(* included.                                                                *)
C32_PidAssignedOnce ==
    [][/\ \A p, q \in DOMAIN processes' :
              p # q => processes'[p].pid # processes'[q].pid
       /\ \A p \in DOMAIN processes :
              /\ p \in DOMAIN processes'
              /\ processes'[p].pid = processes[p].pid]_vars
====
